---------------------------- MODULE Spec2Model ----------------------------
(***************************************************************************)
(* A model of speechbrain/nnet/attention.py: the three streaming attention *)
(* cells (ContentBasedAttention, LocationAwareAttention, KeyValueAttention)*)
(* with their cached source projection, and RelPosMultiHeadAttention with  *)
(* its relative shift and its masks.                                       *)
(*                                                                         *)
(* Numbers.  Tensors hold integers (fixed point).  A row of attention      *)
(* weights is the pair [num, den]: weight t is num[t]/den, and den = 0     *)
(* stands for a row of NaN (what torch returns for 0/0 and 0*inf).  An     *)
(* energy is a record [k, v]: k = "fin" with the value v, k = "ninf" for   *)
(* -inf, k = "nan" for NaN.  None is the empty tuple << >>, and an         *)
(* attribute that is set to x is the tuple << x >>.  Positions are         *)
(* 1-based: position t of the model is index t-1 of the code.              *)
(***************************************************************************)
EXTENDS Integers, Sequences, FiniteSets, TLC

\* ------------------------------------------------------------------ bounds
MaxBatch == 2
MaxTime == 2
MaxLen == 3
MaxTail == 2
MaxEmbed == 10
MaxHeads == 3
MaxHeadDim == 2
MaxSeq == 2
MaxNumHeads == 2
ExpBits == 3

\* ------------------------------------------------- parameters of the layers
\* nn.Linear(enc_dim, attn_dim): weight and bias of mlp_enc (enc_dim = attn_dim = 1)
WEnc == 2
BEnc == -1
\* nn.Linear(dec_dim, attn_dim): weight and bias of mlp_dec
WDec == 1
BDec == 0
\* nn.Linear(attn_dim, 1, bias=False)
WAttn == 1
\* nn.Linear(enc_dim, output_dim)
WOut == 1
BOut == 1
\* nn.Conv1d(1, conv_channels, 2*kernel_size+1, padding=kernel_size, bias=False),
\* conv_channels = 1, kernel_size = 1: the three taps
ConvTaps == <<1, 2, 1>>
\* nn.Linear(conv_channels, attn_dim)
WLoc == 2
BLoc == 0
\* scaling=1.0
Scaling == 1
\* torch.tanh saturates: the fixed-point tanh is the identity on
\* -TanhSat..TanhSat and constant outside
TanhSat == 2
\* KeyValueAttention: key_linear, query_linear, value_linear
WKey == 1
BKey == 0
WQuery == 2
BQuery == -1
WValue == 3
BValue == 1

None == << >>
Some(x) == << x >>
IsNone(a) == a = << >>
Get(a) == a[1]

Fin(v) == [k |-> "fin", v |-> v]
NegInf == [k |-> "ninf", v |-> 0]
NaN == [k |-> "nan", v |-> 0]

\* a function on 1..n as the tuple of its values
Tup(f) == f \o << >>

RECURSIVE SumSeq(_)
SumSeq(s) == IF s = << >> THEN 0 ELSE Head(s) + SumSeq(Tail(s))

RECURSIVE MaxFin(_)
\* the largest finite value of a row of energies that holds one
MaxFin(s) ==
    IF Len(s) = 1 THEN Head(s).v
    ELSE LET m == MaxFin(Tail(s))
         IN  IF Head(s).v > m THEN Head(s).v ELSE m

\* ------------------------------------------------------------ primitives
\* speechbrain.dataio.dataio.length_to_mask: mask[b][t] = 1 iff t-1 < length[b]
length_to_mask(length, max_len) ==
    Tup([b \in 1..Len(length) |-> Tup([t \in 1..max_len |-> IF t - 1 < length[b] THEN 1 ELSE 0])])

\* exp of a difference d <= 0 in fixed point: 2^d scaled by 2^ExpBits, and 0
\* once the result underflows
exp(d) == IF d < -ExpBits THEN 0 ELSE 2 ^ (ExpBits + d)

\* a masked_fill that fills nothing
masked_fill_nothing(row, cond, fill) == row

\* Tensor.masked_fill(cond, fill) on one row
masked_fill(row, cond, fill) ==
    Tup([t \in 1..Len(row) |-> IF cond[t] THEN fill ELSE row[t]])

\* softmax along one row of energies: exp(x - max) / sum.  A row that holds a
\* NaN, or only -inf (max = -inf, -inf - -inf = NaN), is NaN.
softmax(row) ==
    LET fin == SelectSeq(row, LAMBDA e : e.k = "fin")
    IN  IF (\E t \in 1..Len(row) : row[t].k = "nan") \/ fin = << >>
        THEN [num |-> Tup([t \in 1..Len(row) |-> 0]), den |-> 0]
        ELSE LET m == MaxFin(fin)
                 num == Tup([t \in 1..Len(row) |->
                            IF row[t].k = "ninf" THEN 0 ELSE exp(row[t].v - m)])
             IN  [num |-> num, den |-> SumSeq(num)]

\* x * c for an energy x and a positive factor c
Scale(e, c) == IF e.k = "fin" THEN Fin(e.v * c) ELSE e

tanh(x) == IF x > TanhSat THEN TanhSat ELSE IF x < -TanhSat THEN -TanhSat ELSE x

mlp_enc(x) == WEnc * x + BEnc
mlp_dec(q) == WDec * q + BDec
mlp_attn(h) == WAttn * h
key_linear(x) == WKey * x + BKey
query_linear(q) == WQuery * q + BQuery
value_linear(x) == WValue * x + BValue

\* torch.bmm(attn.unsqueeze(1), x).squeeze(1) for one row: the weighted sum
\* of x under the weights w, as the fraction [num, den]
bmm(w, x) == [num |-> SumSeq(Tup([t \in 1..Len(x) |-> w.num[t] * x[t]])), den |-> w.den]

\* mlp_out applied to a fraction
mlp_out(c) == [num |-> WOut * c.num + BOut * c.den, den |-> c.den]


\* ------------------------------------------------------- streaming cells
VARIABLES
    cls,      \* the class of the cell: "content", "location" or "keyvalue"
    shape,    \* [batch, time] of the encoder sequences the caller passes
    self,     \* the instance attributes that reset() and forward() write
    calls,    \* forward() calls since construction or the latest reset(), capped at 2
    first,    \* the arguments of the first forward() since then, or None
    last      \* the latest call: its operation, its enc_states and dec_states,
              \* whether its enc_len was that of the first call, what it returned,
              \* what its location convolution read and what the call before returned

VARIABLES
    shift_x,    \* the tensor handed to _rel_shift, or None
    shift_out   \* what _rel_shift returned for it, or None

VARIABLES
    inst,       \* the RelPosMultiHeadAttention instance: None, or its attributes
    ctor,       \* the latest call of its constructor: arguments and outcome, or None
    call,       \* the latest call of its forward(): arguments and outcome, or None
    build,      \* the torch build: whether Tensor.masked_fill expands self
    pending     \* per caller of the shared instance: its call of forward, or None

cellvars == <<cls, shape, self, calls, first, last>>
shiftvars == <<shift_x, shift_out>>
relvars == <<inst, ctor, call, build, pending>>

\* the values of one feature, of one query
FeatVals == {0, 1}
QueryVals == {0, 1}

Classes == {"content", "location", "keyvalue"}

\* The batches the caller passes.  Row b of a batch is derived from its first
\* row (complemented features and query, a length shifted by one per row), so
\* that the rows of one batch differ.
EncStates(B, T) ==
    {Tup([b \in 1..B |-> Tup([t \in 1..T |-> (r[t] + b - 1) % 2])]) : r \in [1..T -> FeatVals]}
EncLens(B, T) == {Tup([b \in 1..B |-> (l + b - 1) % (T + 2)]) : l \in 0..(T + 1)}
DecStates(B) == {Tup([b \in 1..B |-> (q + b - 1) % 2]) : q \in QueryVals}

\* the attributes every reset() assigns, per class; an attribute a class
\* does not have stays None
ContentBasedAttention_reset(s) ==
    [s EXCEPT !.enc_len = None, !.precomputed_enc_h = None, !.mask = None]

\* a reset() that forgets prev_attn
LocationAwareAttention_reset_keep(s) ==
    [s EXCEPT !.enc_len = None, !.precomputed_enc_h = None, !.mask = None]

LocationAwareAttention_reset(s) ==
    [s EXCEPT !.enc_len = None, !.precomputed_enc_h = None, !.mask = None,
              !.prev_attn = None]

KeyValueAttention_reset(s) ==
    [s EXCEPT !.values = None, !.keys = None, !.mask = None]

\* the attributes of an instance before __init__ calls reset()
Blank ==
    [enc_len |-> None, precomputed_enc_h |-> None, mask |-> None,
     prev_attn |-> None, keys |-> None, values |-> None]

\* __init__ of each class ends with self.reset()
Construct(c) ==
    CASE c = "content" -> ContentBasedAttention_reset(Blank)
      [] c = "location" -> LocationAwareAttention_reset(Blank)
      [] c = "keyvalue" -> KeyValueAttention_reset(Blank)

\* a test that finds the cache unset on every call
CacheUnset_always(a) == TRUE

\* `if self.precomputed_enc_h is None`, `if self.keys is None`
CacheUnset(a) == IsNone(a)

\* the masked, scaled softmax of one row of energies
MaskedSoftmax(energy, maskrow, scaling) ==
    LET attn == masked_fill(energy, Tup([t \in 1..Len(energy) |-> maskrow[t] = 0]), NegInf)
    IN  softmax(Tup([t \in 1..Len(attn) |-> Scale(attn[t], scaling)]))

ContentBasedAttention_forward(s, enc_states, enc_len, dec_states) ==
    LET B == Len(enc_states)
        s1 == IF CacheUnset(s.precomputed_enc_h)
              THEN [s EXCEPT
                      !.precomputed_enc_h =
                          Some(Tup([b \in 1..B |-> Tup([t \in 1..Len(enc_states[b]) |->
                                    mlp_enc(enc_states[b][t])])])),
                      !.mask = Some(length_to_mask(enc_len, Len(enc_states[1])))]
              ELSE s
        h == Get(s1.precomputed_enc_h)
        m == Get(s1.mask)
        dec_h == Tup([b \in 1..B |-> mlp_dec(dec_states[b])])
        energy == Tup([b \in 1..B |-> Tup([t \in 1..Len(h[b]) |->
                      Fin(mlp_attn(tanh(h[b][t] + dec_h[b])))])])
        attn == Tup([b \in 1..B |-> MaskedSoftmax(energy[b], m[b], Scaling)])
        context == Tup([b \in 1..B |-> mlp_out(bmm(attn[b], enc_states[b]))])
    IN  [self |-> s1, context |-> context, attn |-> attn, conv_in |-> None]

\* 1/enc_len at every position, the mask left out
UniformPrevAttn_unmasked(m, enc_len) ==
    Tup([b \in 1..Len(m) |-> [num |-> Tup([t \in 1..Len(m[b]) |-> 1]), den |-> enc_len[b]]])

\* self.mask * (1 / enc_len.float()).unsqueeze(1): 1/enc_len where the mask
\* is 1 and 0 elsewhere; for enc_len = 0 it is 0 * inf = NaN (den = 0)
UniformPrevAttn(m, enc_len) ==
    Tup([b \in 1..Len(m) |-> [num |-> m[b], den |-> enc_len[b]]])

\* conv_loc then mlp_loc on one row of weights: the three-tap convolution with
\* zero padding on the numerators, projected, and divided by the row's
\* denominator (rounded down); NaN for a row of NaN
LocationFeatures(w) ==
    LET T == Len(w.num)
        at(t) == IF t < 1 \/ t > T THEN 0 ELSE w.num[t]
        conv(t) == ConvTaps[1] * at(t - 1) + ConvTaps[2] * at(t) + ConvTaps[3] * at(t + 1)
    IN  Tup([t \in 1..T |->
            IF w.den = 0 THEN NaN ELSE Fin((WLoc * conv(t)) \div w.den + BLoc)])

\* self.prev_attn = attn.detach(): the attribute after a forward() that
\* computed attn
NextPrevAttn(old, attn) == Some(attn)

LocationAwareAttention_forward(s, enc_states, enc_len, dec_states) ==
    LET B == Len(enc_states)
        newmask == length_to_mask(enc_len, Len(enc_states[1]))
        s1 == IF CacheUnset(s.precomputed_enc_h)
              THEN [s EXCEPT
                      !.precomputed_enc_h =
                          Some(Tup([b \in 1..B |-> Tup([t \in 1..Len(enc_states[b]) |->
                                    mlp_enc(enc_states[b][t])])])),
                      !.mask = Some(newmask),
                      !.prev_attn = Some(UniformPrevAttn(newmask, enc_len))]
              ELSE s
        h == Get(s1.precomputed_enc_h)
        m == Get(s1.mask)
        conv_in == Get(s1.prev_attn)
        attn_conv == Tup([b \in 1..B |-> LocationFeatures(conv_in[b])])
        dec_h == Tup([b \in 1..B |-> mlp_dec(dec_states[b])])
        energy == Tup([b \in 1..B |-> Tup([t \in 1..Len(h[b]) |->
                      IF attn_conv[b][t].k = "nan" THEN NaN
                      ELSE Fin(mlp_attn(tanh(h[b][t] + dec_h[b] + attn_conv[b][t].v)))])])
        attn == Tup([b \in 1..B |-> MaskedSoftmax(energy[b], m[b], Scaling)])
        s2 == [s1 EXCEPT !.prev_attn = NextPrevAttn(s1.prev_attn, attn)]
        context == Tup([b \in 1..B |-> mlp_out(bmm(attn[b], enc_states[b]))])
    IN  [self |-> s2, context |-> context, attn |-> attn, conv_in |-> Some(conv_in)]

KeyValueAttention_forward(s, enc_states, enc_len, dec_states) ==
    LET B == Len(enc_states)
        s1 == IF CacheUnset(s.keys)
              THEN [s EXCEPT
                      !.keys = Some(Tup([b \in 1..B |-> Tup([t \in 1..Len(enc_states[b]) |->
                                    key_linear(enc_states[b][t])])])),
                      !.values = Some(Tup([b \in 1..B |-> Tup([t \in 1..Len(enc_states[b]) |->
                                    value_linear(enc_states[b][t])])])),
                      !.mask = Some(length_to_mask(enc_len, Len(enc_states[1])))]
              ELSE s
        k == Get(s1.keys)
        v == Get(s1.values)
        m == Get(s1.mask)
        query == Tup([b \in 1..B |-> query_linear(dec_states[b])])
        \* attn_dim = 1: self.scaling = sqrt(1) = 1
        scores == Tup([b \in 1..B |-> Tup([t \in 1..Len(k[b]) |-> Fin(k[b][t] * query[b])])])
        normalized_scores == Tup([b \in 1..B |-> MaskedSoftmax(scores[b], m[b], 1)])
        out == Tup([b \in 1..B |-> bmm(normalized_scores[b], v[b])])
    IN  [self |-> s1, context |-> out, attn |-> normalized_scores, conv_in |-> None]

reset(c, s) ==
    CASE c = "content" -> ContentBasedAttention_reset(s)
      [] c = "location" -> LocationAwareAttention_reset(s)
      [] c = "keyvalue" -> KeyValueAttention_reset(s)

forward(c, s, enc_states, enc_len, dec_states) ==
    CASE c = "content" -> ContentBasedAttention_forward(s, enc_states, enc_len, dec_states)
      [] c = "location" -> LocationAwareAttention_forward(s, enc_states, enc_len, dec_states)
      [] c = "keyvalue" -> KeyValueAttention_forward(s, enc_states, enc_len, dec_states)

\* a record of a call that is no forward(); reset_after is set by Reset
NoCall(op) ==
    [op |-> op, enc_states |-> None, same_len |-> TRUE, dec_states |-> None,
     context |-> None, attn |-> None, conv_in |-> None, prev_ret |-> None,
     reset_after |-> 0]

\* ------------------------------------------------------- the relative shift

\* A tensor of shape (qlen, klen, tail) is [shape, data], data in row-major
\* order: element (i, j, u), 0-based, is data[(i * klen + j) * tail + u + 1].
\* The trailing axes (batch, head) of the code are the one axis tail.
At3(x, i, j, u) == x.data[(i * x.shape[2] + j) * x.shape[3] + u + 1]

\* the zero column appended after the keys instead of before them
cat_zero_pad_after(x) ==
    LET q == x.shape[1]
        k == x.shape[2]
        tl == x.shape[3]
    IN  [shape |-> <<q, k + 1, tl>>,
         data |-> Tup([p \in 1..(q * (k + 1) * tl) |->
                     LET u == (p - 1) % tl
                         j == ((p - 1) \div tl) % (k + 1)
                         i == (p - 1) \div (tl * (k + 1))
                     IN  IF j = k THEN 0 ELSE At3(x, i, j, u)])]

\* torch.cat([zero_pad, x], dim=1) with zero_pad of shape (qlen, 1, tail)
cat_zero_pad(x) ==
    LET q == x.shape[1]
        k == x.shape[2]
        tl == x.shape[3]
    IN  [shape |-> <<q, k + 1, tl>>,
         data |-> Tup([p \in 1..(q * (k + 1) * tl) |->
                     LET u == (p - 1) % tl
                         j == ((p - 1) \div tl) % (k + 1)
                         i == (p - 1) \div (tl * (k + 1))
                     IN  IF j = 0 THEN 0 ELSE At3(x, i, j - 1, u)])]

\* Tensor.view: the same data under another shape
view(x, shp) == [shape |-> shp, data |-> x.data]

\* x[:-1]: the tensor without its last slice along the first axis
drop_last(x) ==
    [shape |-> <<x.shape[1] - 1, x.shape[2], x.shape[3]>>,
     data |-> SubSeq(x.data, 1, Len(x.data) - x.shape[2] * x.shape[3])]

\* x[1:]: the tensor without its first slice along the first axis
drop_first(x) ==
    [shape |-> <<x.shape[1] - 1, x.shape[2], x.shape[3]>>,
     data |-> SubSeq(x.data, x.shape[2] * x.shape[3] + 1, Len(x.data))]

rel_shift(x) ==
    LET x_padded == cat_zero_pad(x)
        x_padded_shape == <<x.shape[2] + 1, x.shape[1], x.shape[3]>>
        viewed == view(x_padded, x_padded_shape)
    IN  view(drop_first(viewed), x.shape)

\* The tensors handed to _rel_shift: of every shape within the bounds, the
\* tensor whose elements are 1, 2, ... in row-major order (every element
\* names its place), the zero tensor and the tensors with a single 1.
ShiftShapes == (1..MaxLen) \X (1..MaxLen) \X (1..MaxTail)
Size3(shp) == shp[1] * shp[2] * shp[3]
ShiftInputs ==
    UNION {{[shape |-> shp, data |-> Tup([p \in 1..Size3(shp) |-> p])],
            [shape |-> shp, data |-> Tup([p \in 1..Size3(shp) |-> 0])]}
           \cup {[shape |-> shp,
                  data |-> Tup([p \in 1..Size3(shp) |-> IF p = one THEN 1 ELSE 0])] :
                     one \in 1..Size3(shp)} : shp \in ShiftShapes}

ShiftInit == shift_x = None /\ shift_out = None

\* a caller hands x to _rel_shift
ShiftCall ==
    /\ \E x \in ShiftInputs : shift_x' = Some(x)
    /\ shift_out' = None
    /\ UNCHANGED <<cellvars, relvars>>

\* _rel_shift returns
ShiftReturn ==
    /\ shift_x # None /\ shift_out = None
    /\ shift_out' = Some(rel_shift(Get(shift_x)))
    /\ UNCHANGED <<shift_x, cellvars, relvars>>

ShiftNext == ShiftCall \/ ShiftReturn

CellInit ==
    /\ cls \in Classes
    /\ shape \in [batch : {MaxBatch}, time : 1..MaxTime]
    /\ self = Construct(cls)
    /\ calls = 0
    /\ first = None
    /\ last = NoCall("init")

Reset ==
    /\ self' = reset(cls, self)
    /\ calls' = 0
    /\ first' = None
    /\ last' = [NoCall("reset") EXCEPT !.reset_after = calls]
    /\ UNCHANGED <<cls, shape, shiftvars, relvars>>

Forward ==
    \E enc_states \in EncStates(shape.batch, shape.time),
       enc_len \in EncLens(shape.batch, shape.time),
       dec_states \in DecStates(shape.batch) :
        \E r \in {forward(cls, self, enc_states, enc_len, dec_states)} :
            /\ self' = r.self
            /\ calls' = IF calls = 0 THEN 1 ELSE 2
            /\ first' = IF calls = 0
                        THEN Some([enc_states |-> enc_states, enc_len |-> enc_len])
                        ELSE first
            /\ last' = [op |-> "forward", enc_states |-> Some(enc_states),
                        same_len |-> (calls = 0 \/ enc_len = Get(first).enc_len),
                        dec_states |-> Some(dec_states),
                        context |-> Some(r.context), attn |-> Some(r.attn),
                        conv_in |-> r.conv_in, prev_ret |-> last.attn,
                        reset_after |-> 0]
            /\ UNCHANGED <<cls, shape, shiftvars, relvars>>

CellNext == Reset \/ Forward

\* -------------------------------------------------------- 4-D tensors
\* A tensor is [shape, data]: its sizes and its elements in row-major order.
\* Indices are tuples counted from 0.
Only(S) == CHOOSE x \in S : TRUE

Size4(shp) == shp[1] * shp[2] * shp[3] * shp[4]

Idx4(shp, p) ==
    <<(p - 1) \div (shp[2] * shp[3] * shp[4]),
      ((p - 1) \div (shp[3] * shp[4])) % shp[2],
      ((p - 1) \div shp[4]) % shp[3],
      (p - 1) % shp[4]>>

At4(x, ix) ==
    x.data[((ix[1] * x.shape[2] + ix[2]) * x.shape[3] + ix[3]) * x.shape[4] + ix[4] + 1]

\* the tensor of shape shp whose element at ix is F(ix)
Build4(shp, F(_)) ==
    [shape |-> shp, data |-> Tup([p \in 1..Size4(shp) |-> F(Idx4(shp, p))])]

\* the element at ix of x expanded along its axes of size 1
BcAt(x, ix) ==
    At4(x, <<IF x.shape[1] = 1 THEN 0 ELSE ix[1], IF x.shape[2] = 1 THEN 0 ELSE ix[2],
             IF x.shape[3] = 1 THEN 0 ELSE ix[3], IF x.shape[4] = 1 THEN 0 ELSE ix[4]>>)

\* torch's broadcasting of two shapes of the same rank
Broadcastable(s, t) == \A d \in 1..4 : s[d] = t[d] \/ s[d] = 1 \/ t[d] = 1
BroadcastShape(s, t) == Tup([d \in 1..4 |-> IF s[d] = 1 THEN t[d] ELSE s[d]])
\* m expands to s without s changing
ExpandsTo(m, s) == \A d \in 1..4 : m[d] = s[d] \/ m[d] = 1

\* a shape of rank <= 4 aligned to the right, as broadcasting aligns it
AlignRight(shp) == [d \in 1..(4 - Len(shp)) |-> 1] \o shp

\* a 4-D masked_fill that fills nothing
masked_fill4_nothing(x, mask, fill, expands) == Some(x)

\* Tensor.masked_fill(mask, fill), out of place, on a 4-D tensor: None when
\* the shapes do not fit (RuntimeError).  A build either expands self and
\* mask to their common shape, or requires the mask to expand to self.
masked_fill4(x, mask, fill, expands) ==
    IF IF expands THEN Broadcastable(x.shape, mask.shape)
                  ELSE ExpandsTo(mask.shape, x.shape)
    THEN Some(Build4(BroadcastShape(x.shape, mask.shape),
                     LAMBDA ix : IF BcAt(mask, ix) THEN fill ELSE BcAt(x, ix)))
    ELSE None

\* F.softmax(x, dim=1) of finite scores: the element at (i, j, b, n) is the
\* fraction exp(x - max) / sum over the keys of row (i, b, n)
softmax_dim1(x) ==
    Build4(x.shape, LAMBDA ix :
        LET row == Tup([j \in 1..x.shape[2] |-> At4(x, <<ix[1], j - 1, ix[3], ix[4]>>)])
            m == CHOOSE v \in {row[j] : j \in 1..Len(row)} :
                     \A j \in 1..Len(row) : row[j] <= v
        IN  [num |-> exp(At4(x, ix) - m),
             den |-> SumSeq(Tup([j \in 1..Len(row) |-> exp(row[j] - m)]))])

\* prob * mask for a boolean mask (True is 1, False is 0) aligned to the
\* right: None when the shapes do not broadcast (RuntimeError)
mul_mask(prob, mask) ==
    IF Broadcastable(prob.shape, mask.shape)
    THEN Some(Build4(BroadcastShape(prob.shape, mask.shape),
                     LAMBDA ix : [num |-> IF BcAt(mask, ix) THEN BcAt(prob, ix).num ELSE 0,
                                  den |-> BcAt(prob, ix).den]))
    ELSE None

\* ------------------------------------- RelPosMultiHeadAttention.__init__
\* -1e30, the fill value of a float32 module, on the scale of the model's
\* integers: below every score by more than exp can resolve
AttnFillValue32 == -1000000000
\* the fill value of a float16 module
AttnFillValue16 == -65000

\* an assertion that never fails
Divisible_always(head_dim, num_heads, embed_dim) == TRUE

\* `assert self.head_dim * num_heads == self.embed_dim`
Divisible(head_dim, num_heads, embed_dim) == head_dim * num_heads = embed_dim

\* __init__(embed_dim, num_heads, head_dim, rr_bias, rw_bias) under the
\* default dtype `dtype`; head_dim is None or Some(d), `shared` says that
\* both biases are passed in.  [raised, inst]: the error raised ("" for none)
\* and the instance the caller gets, None when the constructor raised.
RelPosMultiHeadAttention_init(embed_dim, num_heads, head_dim, shared, dtype) ==
    LET hd == IF IsNone(head_dim) THEN embed_dim \div num_heads ELSE Get(head_dim)
    IN  IF IsNone(head_dim) /\ ~Divisible(hd, num_heads, embed_dim)
        THEN [raised |-> "AssertionError", inst |-> None]
        ELSE [raised |-> "",
              inst |-> Some([embed_dim |-> embed_dim, num_heads |-> num_heads,
                             head_dim |-> hd,
                             \* self.scale = 1 / head_dim ** 0.5, kept as head_dim
                             scale_inv_sq |-> hd,
                             rel_shared |-> shared,
                             attn_fill_value |-> IF dtype = "float16"
                                                 THEN AttnFillValue16
                                                 ELSE AttnFillValue32])]

Dtypes == {"float32", "float16"}

Callers == {"a", "b"}
NoCaller == [c \in Callers |-> None]

RelIdle ==
    inst = None /\ ctor = None /\ call = None /\ build = FALSE /\ pending = NoCaller

\* a caller constructs an instance
RelPosInit ==
    /\ ctor = None
    /\ \E embed_dim \in 1..MaxEmbed, num_heads \in 1..MaxHeads,
          head_dim \in {None} \cup {Some(d) : d \in 1..MaxHeadDim},
          shared \in BOOLEAN, dtype \in Dtypes :
          LET r == RelPosMultiHeadAttention_init(embed_dim, num_heads, head_dim,
                                                 shared, dtype)
          IN  /\ inst' = r.inst
              /\ ctor' = [embed_dim |-> embed_dim, num_heads |-> num_heads,
                          head_dim |-> head_dim, shared |-> shared, dtype |-> dtype,
                          raised |-> r.raised]
    /\ UNCHANGED <<call, build, pending, cellvars, shiftvars>>

\* the caller drops the instance, or the error, it got
RelDiscard ==
    /\ ctor # None
    /\ inst' = None /\ ctor' = None
    /\ UNCHANGED <<call, build, pending, cellvars, shiftvars>>

ConstructNext == RelPosInit \/ RelDiscard

\* ---------------------------------- RelPosMultiHeadAttention.forward
\* Inputs have one feature (embed_dim = 1) and heads have one dimension
\* (head_dim = 1): query, key and value are tuples [position][batch] of
\* numbers, r is a tuple [position]; heads are counted from 0.
q_proj_weight(n) == (n % 2) + 1
k_proj_weight(n) == 1
v_proj_weight(n) == n + 1
r_proj_weight(n) == 1
out_proj_weight(n) == 1
r_w_bias(n) == n % 2
r_r_bias(n) == 1 - (n % 2)

RECURSIVE ProdSeq(_)
ProdSeq(s) == IF s = << >> THEN 1 ELSE Head(s) * ProdSeq(Tail(s))

\* what forward hands back, or the error it raises; the tensors computed on
\* the way are kept: attn_score (scaled), masked (after attn_mask), padded
\* (after key_padding_mask), softmaxed, attn_prob and attn_out
Raise(e) ==
    [raised |-> e, attn_score |-> None, masked |-> None, padded |-> None,
     softmaxed |-> None, attn_prob |-> None, attn_out |-> None]

\* attn_score = (AC + BD) * scale, of shape (qlen, klen, bsz, num_heads)
AttnScore(s, query, key, r) ==
    LET qlen == Len(query)
        bsz == Len(query[1])
        klen == Len(key)
        nh == s.num_heads
        shp == <<qlen, klen, bsz, nh>>
        q(i, b, n) == q_proj_weight(n) * query[i + 1][b + 1]
        k(j, b, n) == k_proj_weight(n) * key[j + 1][b + 1]
        rp(j, n) == r_proj_weight(n) * r[j + 1]
        AC == Build4(shp, LAMBDA ix :
                  (q(ix[1], ix[3], ix[4]) + r_w_bias(ix[4])) * k(ix[2], ix[3], ix[4]))
        BD_raw == Build4(shp, LAMBDA ix :
                  (q(ix[1], ix[3], ix[4]) + r_r_bias(ix[4])) * rp(ix[2], ix[4]))
    IN  Only({[shape |-> shp,
               \* head_dim = 1: scale = 1
               data |-> Tup([p \in 1..Size4(shp) |-> (ac.data[p] + bd.data[p]) * 1])] :
                 ac \in {AC},
                 bd \in {rel_shift([shape |-> <<qlen, klen, bsz * nh>>,
                                    data |-> BD_raw.data])}})

\* the masked_fill under attn_mask, when attn_mask holds a True
AttnMaskFill(s, score, attn_mask, expands) ==
    IF IsNone(attn_mask) THEN Some(score)
    ELSE LET m == Get(attn_mask)
         IN  IF \A p \in 1..Len(m.data) : ~m.data[p] THEN Some(score)
             ELSE IF Len(m.shape) = 2
             THEN masked_fill4(score,
                     \* attn_mask[None, :, :, None]
                     [shape |-> <<1, m.shape[1], m.shape[2], 1>>, data |-> m.data],
                     s.attn_fill_value, expands)
             ELSE IF Len(m.shape) = 3
             THEN masked_fill4(score,
                     \* attn_mask[:, :, :, None]
                     [shape |-> <<m.shape[1], m.shape[2], m.shape[3], 1>>, data |-> m.data],
                     s.attn_fill_value, expands)
             ELSE Some(score)

\* the masked_fill under key_padding_mask of shape (bsz, klen), transposed
\* and reshaped to (1, klen, bsz, 1)
KeyPaddingFill(s, score, key_padding_mask, klen, bsz, expands) ==
    IF IsNone(key_padding_mask) THEN Some(score)
    ELSE LET m == Get(key_padding_mask)
         IN  masked_fill4(score,
                 Build4(<<1, klen, bsz, 1>>, LAMBDA ix : m.data[ix[3] * klen + ix[2] + 1]),
                 s.attn_fill_value, expands)

\* nn.Dropout(0.0)
dropout(x) == x

\* attn_prob * attn_mask
MaskProb(prob, attn_mask) ==
    IF IsNone(attn_mask) THEN Some(prob)
    ELSE mul_mask(prob, [shape |-> AlignRight(Get(attn_mask).shape),
                         data |-> Get(attn_mask).data])

\* einsum("ijbn,jbnd->ibnd", attn_prob, v) with v of shape (klen, bsz,
\* num_heads, 1): None when a dimension of the two differs and is not 1
AttnVec(s, prob, value) ==
    LET klen == Len(value)
        bsz == Len(value[1])
        nh == s.num_heads
        P == prob.shape
        Fit(a, b) == a = b \/ a = 1 \/ b = 1
        Max(a, b) == IF a > b THEN a ELSE b
        v(j, b, n) == v_proj_weight(IF nh = 1 THEN 0 ELSE n)
                        * value[IF klen = 1 THEN 1 ELSE j + 1][IF bsz = 1 THEN 1 ELSE b + 1]
    IN  IF Fit(P[2], klen) /\ Fit(P[3], bsz) /\ Fit(P[4], nh)
        THEN Some(Build4(<<P[1], Max(P[3], bsz), Max(P[4], nh), 1>>, LAMBDA ix :
                [num |-> SumSeq(Tup([j \in 1..Max(P[2], klen) |->
                            BcAt(prob, <<ix[1], j - 1, ix[2], ix[3]>>).num
                                * v(j - 1, ix[2], ix[3])])),
                 den |-> BcAt(prob, <<ix[1], 0, ix[2], ix[3]>>).den]))
        ELSE None

\* attn_vec.view(size(0), size(1), num_heads * head_dim) and out_proj: the
\* tuple [position][batch] of fractions, None when the view does not fit
OutProj(s, vec) ==
    IF vec.shape[3] * vec.shape[4] # s.num_heads * s.head_dim THEN None
    ELSE Some(Tup([i \in 1..vec.shape[1] |-> Tup([b \in 1..vec.shape[2] |->
            LET h(n) == At4(vec, <<i - 1, b - 1, n - 1, 0>>)
                dens == Tup([n \in 1..s.num_heads |-> h(n).den])
            IN  [num |-> SumSeq(Tup([n \in 1..s.num_heads |->
                            out_proj_weight(n - 1) * h(n).num
                              * ProdSeq(Tup([m \in 1..s.num_heads |->
                                              IF m = n THEN 1 ELSE dens[m]]))])),
                 den |-> ProdSeq(dens)]])]))

\* forward(query, key, value, r, key_padding_mask, attn_mask) on the
\* instance s under a build whose masked_fill expands self or not
RelPosMultiHeadAttention_forward(s, query, key, value, r, key_padding_mask, attn_mask, expands) ==
    LET qlen == Len(query)
        bsz == Len(query[1])
        klen == Len(key)
    IN  IF bsz # Len(value[1]) \/ klen # Len(value) \/ Len(r) # klen
        THEN Raise("AssertionError")
        ELSE IF ~IsNone(key_padding_mask)
                /\ (Get(key_padding_mask).shape[1] # bsz
                    \/ Get(key_padding_mask).shape[2] # klen)
        THEN Raise("AssertionError")
        \* k_proj(key).view(klen, bsz, num_heads, head_dim)
        ELSE IF Len(key[1]) # bsz THEN Raise("RuntimeError")
        ELSE Only({Only({
            IF IsNone(masked) THEN [Raise("RuntimeError") EXCEPT !.attn_score = Some(score)]
            ELSE Only({
              IF IsNone(padded)
              THEN [Raise("RuntimeError") EXCEPT !.attn_score = Some(score),
                                                 !.masked = masked]
              ELSE Only({Only({
                IF IsNone(attn_prob)
                THEN [Raise("RuntimeError") EXCEPT !.attn_score = Some(score),
                          !.masked = masked, !.padded = padded,
                          !.softmaxed = Some(softmaxed)]
                ELSE Only({
                  LET done == [raised |-> "", attn_score |-> Some(score),
                               masked |-> masked, padded |-> padded,
                               softmaxed |-> Some(softmaxed), attn_prob |-> attn_prob,
                               attn_out |-> None]
                  IN  IF IsNone(attn_vec) THEN [done EXCEPT !.raised = "RuntimeError"]
                      ELSE Only({IF IsNone(attn_out)
                                 THEN [done EXCEPT !.raised = "RuntimeError"]
                                 ELSE [done EXCEPT !.attn_out = attn_out] :
                                   attn_out \in {OutProj(s, Get(attn_vec))}}) :
                    attn_vec \in {AttnVec(s, Get(attn_prob), value)}}) :
                  attn_prob \in {MaskProb(dropout(softmaxed), attn_mask)}}) :
                softmaxed \in {softmax_dim1(Get(padded))}}) :
              padded \in {KeyPaddingFill(s, Get(masked), key_padding_mask,
                                         klen, bsz, expands)}}) :
            masked \in {AttnMaskFill(s, score, attn_mask, expands)}}) :
          score \in {AttnScore(s, query, key, r)}})

\* The calls of forward: every (qlen, klen, bsz) within MaxSeq, two sets of
\* features per shape, and the masks of the documented shapes, attn_mask
\* (qlen, klen) or (bsz, qlen, klen) and key_padding_mask (bsz, klen), each
\* all False, all True, True at one place, causal (attn_mask) or with the
\* last key padded (key_padding_mask); True marks a position to ignore.
MaskContents(n) ==
    {Tup([p \in 1..n |-> FALSE]), Tup([p \in 1..n |-> TRUE])}
        \cup {Tup([p \in 1..n |-> p = one]) : one \in 1..n}

\* key j lies after query i
Causal2(qlen, klen) ==
    Some([shape |-> <<qlen, klen>>,
          data |-> Tup([p \in 1..(qlen * klen) |-> (p - 1) % klen > (p - 1) \div klen])])
Causal3(qlen, klen, bsz) ==
    Some([shape |-> <<bsz, qlen, klen>>,
          data |-> Tup([p \in 1..(bsz * qlen * klen) |->
                         (p - 1) % klen > ((p - 1) \div klen) % qlen])])
LastKeyPadded(bsz, klen) ==
    Some([shape |-> <<bsz, klen>>,
          data |-> Tup([p \in 1..(bsz * klen) |-> (p - 1) % klen = klen - 1])])

AttnMasks(qlen, klen, bsz) ==
    {None, Causal2(qlen, klen), Causal3(qlen, klen, bsz)}
    \cup {Some([shape |-> <<qlen, klen>>, data |-> d]) : d \in MaskContents(qlen * klen)}
    \cup {Some([shape |-> <<bsz, qlen, klen>>, data |-> d]) :
            d \in MaskContents(bsz * qlen * klen)}

KeyPaddingMasks(bsz, klen) ==
    {None, LastKeyPadded(bsz, klen)}
    \cup {Some([shape |-> <<bsz, klen>>, data |-> d]) : d \in MaskContents(bsz * klen)}

\* the pairs <<key_padding_mask, attn_mask>> of a call: every mask of one
\* kind beside no mask or the causal or last-key mask of the other kind
MaskPairs(qlen, klen, bsz) ==
    (KeyPaddingMasks(bsz, klen)
        \X {None, Causal2(qlen, klen), Causal3(qlen, klen, bsz)})
    \cup ({None, LastKeyPadded(bsz, klen)} \X AttnMasks(qlen, klen, bsz))

RelQuery(qlen, bsz, seed) ==
    Tup([i \in 1..qlen |-> Tup([b \in 1..bsz |-> (i + b + seed) % 2])])
RelKey(klen, bsz, seed) ==
    Tup([j \in 1..klen |-> Tup([b \in 1..bsz |-> ((j + 2 * b + seed) % 3) - 1])])
RelValue(klen, bsz, seed) ==
    Tup([j \in 1..klen |-> Tup([b \in 1..bsz |-> ((j + b + seed) % 2) + 1])])
RelPos(klen, seed) == Tup([j \in 1..klen |-> (j + seed) % 2])

RelArgs(query, key, value, r, key_padding_mask, attn_mask) ==
    [query |-> query, key |-> key, value |-> value, r |-> r,
     key_padding_mask |-> key_padding_mask, attn_mask |-> attn_mask]

\* the calls whose arguments fit each other
RelCallsFit ==
    UNION {{RelArgs(RelQuery(d[1], d[3], seed), RelKey(d[2], d[3], seed),
                    RelValue(d[2], d[3], seed), RelPos(d[2], seed), m[1], m[2]) :
              seed \in {0, 1}, m \in MaskPairs(d[1], d[2], d[3])} :
           d \in (1..MaxSeq) \X (1..MaxSeq) \X (1..MaxSeq)}

\* the calls with one argument of a wrong length or batch size
RelCallsUnfit ==
    UNION {{RelArgs(RelQuery(d[1], d[3], 0), RelKey(d[2], d[3], 0),
                    RelValue(d[2], d[3] + 1, 0), RelPos(d[2], 0), None, None),
            RelArgs(RelQuery(d[1], d[3], 0), RelKey(d[2], d[3], 0),
                    RelValue(d[2] + 1, d[3], 0), RelPos(d[2], 0), None, None),
            RelArgs(RelQuery(d[1], d[3], 0), RelKey(d[2], d[3], 0),
                    RelValue(d[2], d[3], 0), RelPos(d[2] + 1, 0), None, None),
            RelArgs(RelQuery(d[1], d[3], 0), RelKey(d[2], d[3] + 1, 0),
                    RelValue(d[2], d[3], 0), RelPos(d[2], 0), None, None),
            RelArgs(RelQuery(d[1], d[3], 0), RelKey(d[2], d[3], 0),
                    RelValue(d[2], d[3], 0), RelPos(d[2], 0),
                    Some([shape |-> <<d[3] + 1, d[2]>>,
                          data |-> Tup([p \in 1..((d[3] + 1) * d[2]) |-> FALSE])]), None),
            RelArgs(RelQuery(d[1], d[3], 0), RelKey(d[2], d[3], 0),
                    RelValue(d[2], d[3], 0), RelPos(d[2], 0),
                    Some([shape |-> <<d[3], d[2] + 1>>,
                          data |-> Tup([p \in 1..(d[3] * (d[2] + 1)) |-> FALSE])]), None)} :
           d \in (1..MaxSeq) \X (1..MaxSeq) \X (1..MaxSeq)}

RelCalls == RelCallsFit \cup RelCallsUnfit

\* an instance with embed_dim = 1 and head_dim = 1, of either dtype, under
\* either build
RelBuilt ==
    /\ \E num_heads \in 1..MaxNumHeads, dtype \in Dtypes :
          /\ inst = RelPosMultiHeadAttention_init(1, num_heads, Some(1), FALSE, dtype).inst
          /\ ctor = [embed_dim |-> 1, num_heads |-> num_heads, head_dim |-> Some(1),
                     shared |-> FALSE, dtype |-> dtype, raised |-> ""]
    /\ call = None
    /\ build \in BOOLEAN
    /\ pending = NoCaller

\* a caller calls forward and holds what it returned, or its error
RelForward ==
    /\ inst # None /\ call = None
    /\ \E a \in RelCalls :
          \E out \in {RelPosMultiHeadAttention_forward(Get(inst), a.query, a.key,
                          a.value, a.r, a.key_padding_mask, a.attn_mask, build)} :
              call' = Some([args |-> a, out |-> out])
    /\ UNCHANGED <<inst, ctor, build, pending, cellvars, shiftvars>>

\* the caller lets go of what the call returned
RelReturn ==
    /\ call # None
    /\ call' = None
    /\ UNCHANGED <<inst, ctor, build, pending, cellvars, shiftvars>>

RelNext == RelForward \/ RelReturn

\* ------------------------------------- callers sharing one instance
\* a forward that keeps the fill value of its latest call's mask on self
RelPosMultiHeadAttention_call_keeping(s, a, expands) ==
    [self |-> IF IsNone(a.key_padding_mask) THEN s
              ELSE [s EXCEPT !.attn_fill_value = 0],
     out |-> RelPosMultiHeadAttention_forward(s, a.query, a.key, a.value, a.r,
                                              a.key_padding_mask, a.attn_mask, expands)]

\* one call of forward on the instance s: what the call leaves on self (no
\* statement of forward assigns to an attribute) and what it hands back
RelPosMultiHeadAttention_call(s, a, expands) ==
    [self |-> s,
     out |-> RelPosMultiHeadAttention_forward(s, a.query, a.key, a.value, a.r,
                                              a.key_padding_mask, a.attn_mask, expands)]

\* the calls of the callers that share the instance: self-attention over
\* 1..MaxSeq positions and as many batch rows, without a mask, with the last
\* key padded, with a causal attn_mask, and with a value of a wrong length
CallerCalls ==
    UNION {{RelArgs(RelQuery(d, d, 0), RelKey(d, d, 0), RelValue(d, d, 0),
                    RelPos(d, 0), None, None),
            RelArgs(RelQuery(d, d, 0), RelKey(d, d, 0), RelValue(d, d, 0),
                    RelPos(d, 0), LastKeyPadded(d, d), None),
            RelArgs(RelQuery(d, d, 0), RelKey(d, d, 0), RelValue(d, d, 0),
                    RelPos(d, 0), None, Causal2(d, d)),
            RelArgs(RelQuery(d, d, 0), RelKey(d, d, 0), RelValue(d + 1, d, 0),
                    RelPos(d, 0), None, None)} : d \in 1..MaxSeq}

\* a caller enters forward with its arguments
CallerEnter ==
    /\ inst # None
    /\ \E c \in Callers :
          /\ pending[c] = None
          /\ \E a \in CallerCalls :
                pending' = [pending EXCEPT ![c] = Some([args |-> a, out |-> None])]
    /\ UNCHANGED <<inst, ctor, call, build, cellvars, shiftvars>>

\* a caller's forward runs to its return or its error, on the instance as it
\* is by then
CallerFinish ==
    /\ inst # None
    /\ \E c \in Callers :
          /\ pending[c] # None /\ Get(pending[c]).out = None
          /\ \E r \in {RelPosMultiHeadAttention_call(Get(inst), Get(pending[c]).args,
                                                    build)} :
                /\ inst' = Some(r.self)
                /\ pending' = [pending EXCEPT
                                 ![c] = Some([args |-> Get(pending[c]).args,
                                              out |-> Some(r.out)])]
    /\ UNCHANGED <<ctor, call, build, cellvars, shiftvars>>

\* a caller lets go of what its call returned
CallerLeave ==
    /\ \E c \in Callers :
          /\ pending[c] # None /\ Get(pending[c]).out # None
          /\ pending' = [pending EXCEPT ![c] = None]
    /\ UNCHANGED <<inst, ctor, call, build, cellvars, shiftvars>>

CallersNext == CallerEnter \/ CallerFinish \/ CallerLeave

vars == <<cellvars, shiftvars, relvars>>

\* the cell no caller has built, in the specifications about other parts
CellIdle ==
    /\ cls = "none" /\ shape = [batch |-> 0, time |-> 0] /\ self = Blank
    /\ calls = 0 /\ first = None /\ last = NoCall("init")

\* the streaming cells: a cell of one class, constructed
Init == CellInit /\ ShiftInit /\ RelIdle
Spec == Init /\ [][CellNext]_vars

\* _rel_shift
InitShift == CellIdle /\ ShiftInit /\ RelIdle
SpecShift == InitShift /\ [][ShiftNext]_vars

\* the constructor of RelPosMultiHeadAttention
InitConstruct == CellIdle /\ ShiftInit /\ RelIdle
SpecConstruct == InitConstruct /\ [][ConstructNext]_vars

\* forward of RelPosMultiHeadAttention
InitRel == CellIdle /\ ShiftInit /\ RelBuilt
SpecRel == InitRel /\ [][RelNext]_vars

\* forward called by several callers on one instance
InitCallers == CellIdle /\ ShiftInit /\ RelBuilt
SpecCallers == InitCallers /\ [][CallersNext]_vars

\* --------------------------------------------------- claims: streaming cells
\* the cache of a cell: the attributes forward() fills when it finds them unset
Cache(c, s) ==
    IF c = "keyvalue" THEN <<s.keys, s.values, s.mask>>
    ELSE <<s.precomputed_enc_h, s.mask>>

CacheIsUnset(c, s) == \A i \in 1..Len(Cache(c, s)) : IsNone(Cache(c, s)[i])

\* the cache computed from the arguments a = [enc_states, enc_len]
CacheFrom(c, a) ==
    LET B == Len(a.enc_states)
        T == Len(a.enc_states[1])
        m == Some(Tup([b \in 1..B |-> Tup([t \in 1..T |-> IF t <= a.enc_len[b] THEN 1 ELSE 0])]))
        proj(w, c0) == Some(Tup([b \in 1..B |-> Tup([t \in 1..T |-> w * a.enc_states[b][t] + c0])]))
    IN  IF c = "keyvalue" THEN <<proj(WKey, BKey), proj(WValue, BValue), m>>
        ELSE <<proj(WEnc, BEnc), m>>

\* C1: a forward() recomputes and stores the cache iff the cache is unset
\* when it starts, which is iff it is the first forward() since construction
\* or the latest reset(); every other forward() leaves the cache as it was;
\* the cache is always that of the arguments of the first forward() since then.
C1_CacheRecomputedIffUnset ==
    [][last'.op = "forward" =>
         /\ CacheIsUnset(cls, self) <=> calls = 0
         /\ IF CacheIsUnset(cls, self)
            THEN /\ Get(first').enc_states = Get(last'.enc_states)
                 /\ Cache(cls, self') = CacheFrom(cls, Get(first'))
            ELSE Cache(cls, self') = Cache(cls, self)
         /\ Cache(cls, self') = CacheFrom(cls, Get(first'))]_vars

\* a forward() that found the cache set was passed other enc_states than the
\* first forward() of its sequence
C1_Witness ==
    /\ last.op = "forward" /\ calls = 2
    /\ Get(last.enc_states) # Get(first).enc_states
    /\ ~CacheIsUnset(cls, self)

\* what forward() returns from state s for the original arguments of the
\* sequence and the query q
Original(c, s, a, q) == forward(c, s, a.enc_states, a.enc_len, q)

\* the context of ContentBasedAttention and LocationAwareAttention for the
\* weights attn and the enc_states of the call
ContextOf(attn, enc_states) ==
    Tup([b \in 1..Len(attn) |->
        [num |-> WOut * SumSeq(Tup([t \in 1..Len(enc_states[b]) |->
                        attn[b].num[t] * enc_states[b][t]])) + BOut * attn[b].den,
         den |-> attn[b].den]])

\* C2 (as amended): a forward() that finds the cache set returns, whatever
\* enc_states (of the same shape) it is passed, the attention weights it would
\* have returned with the original enc_states; KeyValueAttention returns the
\* same context too, while ContentBasedAttention and LocationAwareAttention
\* compute the context from the enc_states of this call; the first forward()
\* after construction or reset() returns what a new instance returns for its
\* arguments.
C2_StaleWeightsFreshAfterReset ==
    [][last'.op = "forward" =>
         IF calls = 0
         THEN LET new == forward(cls, Construct(cls), Get(first').enc_states,
                                 Get(first').enc_len, Get(last'.dec_states))
              IN  /\ Get(first').enc_states = Get(last'.enc_states)
                  /\ last'.attn = Some(new.attn)
                  /\ last'.context = Some(new.context)
         ELSE LET ref == Original(cls, self, Get(first), Get(last'.dec_states))
              IN  /\ last'.attn = Some(ref.attn)
                  /\ cls = "keyvalue" => last'.context = Some(ref.context)
                  /\ cls # "keyvalue" =>
                        last'.context = Some(ContextOf(ref.attn, Get(last'.enc_states)))
        ]_vars

\* C2 as stated: without a reset() the whole output, context included, is the
\* one the original enc_states give, for every class.
C2_Original ==
    [][(last'.op = "forward" /\ calls > 0) =>
         LET ref == Original(cls, self, Get(first), Get(last'.dec_states))
         IN  /\ last'.attn = Some(ref.attn)
             /\ last'.context = Some(ref.context)]_vars

\* a second forward() of a ContentBasedAttention with other enc_states: its
\* weights are those the original enc_states give, its context is not
C2_Witness ==
    /\ cls = "content" /\ last.op = "forward" /\ calls = 2
    /\ Get(last.enc_states) # Get(first).enc_states
    /\ last.attn = last.prev_ret
    /\ last.context # Some(ContextOf(Get(last.attn), Get(first).enc_states))

\* C3: in a sequence whose calls pass the enc_len of its first call, for every
\* row b with 1 <= enc_len[b] <= time the weights are a proper distribution
\* (not NaN), 0 at every position t >= enc_len[b] and sum to 1 over t < enc_len[b].
C3_MaskedWeights ==
    (last.op = "forward" /\ last.same_len) =>
        \A b \in 1..shape.batch :
            LET n == Get(first).enc_len[b]
                w == Get(last.attn)[b]
            IN  (1 <= n /\ n <= shape.time) =>
                    /\ w.den > 0
                    /\ \A t \in 1..shape.time : t - 1 >= n => w.num[t] = 0
                    /\ SumSeq(SubSeq(w.num, 1, n)) = w.den

\* a later forward() of a sequence with a padded row that has weight on
\* each of its valid positions
C3_Witness ==
    /\ last.op = "forward" /\ calls = 2 /\ last.same_len
    /\ \E b \in 1..shape.batch :
          /\ Get(first).enc_len[b] = 1 /\ shape.time = 2
          /\ Get(last.attn)[b].num[1] > 0
    /\ \E b \in 1..shape.batch :
          /\ Get(first).enc_len[b] = 2
          /\ Get(last.attn)[b].num[1] > 0 /\ Get(last.attn)[b].num[2] > 0

\* C4: reset() leaves every attribute it owns unset, which is the state
\* after construction, whatever the state it is called in; the forward()
\* after it returns, and stores, what the first forward() of a new instance
\* does.
C4_ResetRestoresConstruction ==
    [][/\ last'.op = "reset" =>
            /\ self' = Construct(cls)
            /\ \A f \in DOMAIN self' : IsNone(self'[f])
       /\ (last'.op = "forward" /\ last.op = "reset") =>
            LET new == forward(cls, Construct(cls), Get(last'.enc_states),
                               Get(first').enc_len, Get(last'.dec_states))
            IN  /\ self' = new.self
                /\ last'.attn = Some(new.attn)
                /\ last'.context = Some(new.context)]_vars

\* reset() of a LocationAwareAttention in the middle of a sequence
C4_Witness ==
    /\ last.op = "reset" /\ last.reset_after = 2
    /\ cls = "location"
    /\ IsNone(self.prev_attn)

\* the uniform distribution over the first n of T positions, as stored
IsUniform(w, n) ==
    /\ w.den = n
    /\ \A t \in 1..Len(w.num) : w.num[t] = IF t - 1 < n THEN 1 ELSE 0

\* a proper zero row
IsZeroRow(w) == w.den > 0 /\ \A t \in 1..Len(w.num) : w.num[t] = 0

C5_Common ==
    cls = "location" =>
        /\ IsNone(self.prev_attn) <=> IsNone(self.precomputed_enc_h)
        /\ last.op = "forward" =>
              /\ self.prev_attn = last.attn
              /\ calls = 2 => last.conv_in = last.prev_ret

\* C5 (as amended): in LocationAwareAttention prev_attn is set exactly when
\* the cache is; the location convolution of the first forward() after a
\* reset() reads, in every row with enc_len[b] >= 1, 1/enc_len[b] at the
\* positions t < enc_len[b] and 0 elsewhere; after every forward() prev_attn is
\* the weights it returned, and a later forward() reads the weights the call
\* before it returned.
C5_PrevAttn ==
    /\ C5_Common
    /\ (cls = "location" /\ last.op = "forward" /\ calls = 1) =>
          \A b \in 1..shape.batch :
              Get(first).enc_len[b] >= 1 =>
                  IsUniform(Get(last.conv_in)[b], Get(first).enc_len[b])

\* C5 as stated: 1/enc_len[b] at t < enc_len[b] and 0 elsewhere in every row,
\* so a row with enc_len[b] = 0 is 0 everywhere.
C5_Original ==
    /\ C5_Common
    /\ (cls = "location" /\ last.op = "forward" /\ calls = 1) =>
          \A b \in 1..shape.batch :
              IF Get(first).enc_len[b] >= 1
              THEN IsUniform(Get(last.conv_in)[b], Get(first).enc_len[b])
              ELSE IsZeroRow(Get(last.conv_in)[b])

\* a later forward() of a LocationAwareAttention with a padded row, which
\* read the weights the call before returned, and these were not uniform
C5_Witness ==
    /\ cls = "location" /\ last.op = "forward" /\ calls = 2
    /\ last.conv_in = last.prev_ret
    /\ self.prev_attn = last.attn
    /\ last.conv_in # Some(UniformPrevAttn(Get(self.mask), Get(first).enc_len))
    /\ \E b \in 1..shape.batch :
          Get(first).enc_len[b] >= 1 /\ Get(first).enc_len[b] < shape.time


\* --------------------------------------------------- claims: relative shift
\* C6 (as amended): for every query index i, key index j and trailing index u
\* (batch, head) whose source index j - i + qlen - 1 is within 0..klen-1, the
\* shifted tensor holds BD[i, j] = BD_raw[i, j - i + offset], with the offset
\* qlen - 1, which depends on the lengths alone.
C6_RelShiftAlignment ==
    shift_out # None =>
        LET x == Get(shift_x)
            out == Get(shift_out)
            offset == x.shape[1] - 1
        IN  /\ out.shape = x.shape
            /\ \A i \in 0..(x.shape[1] - 1), j \in 0..(x.shape[2] - 1),
                  u \in 0..(x.shape[3] - 1) :
                  (0 <= j - i + offset /\ j - i + offset <= x.shape[2] - 1) =>
                      At3(out, i, j, u) = At3(x, i, j - i + offset, u)

\* C6 as stated: BD[i, j] = BD_raw[i, i - j + offset] wherever that source
\* index is in bounds, for an offset under which the claim covers the pairs
\* i = j (0 <= offset < klen).
C6_Original ==
    shift_out # None =>
        LET x == Get(shift_x)
            out == Get(shift_out)
        IN  \E offset \in 0..(x.shape[2] - 1) :
                \A i \in 0..(x.shape[1] - 1), j \in 0..(x.shape[2] - 1),
                   u \in 0..(x.shape[3] - 1) :
                   (0 <= i - j + offset /\ i - j + offset <= x.shape[2] - 1) =>
                       At3(out, i, j, u) = At3(x, i, i - j + offset, u)

\* the shift of a square tensor of distinct elements with two trailing
\* elements, which moved an element off the diagonal
C6_Witness ==
    /\ shift_out # None
    /\ Get(shift_x).shape = <<2, 2, 2>>
    /\ Get(shift_x).data = <<1, 2, 3, 4, 5, 6, 7, 8>>
    /\ At3(Get(shift_out), 1, 0, 1) = At3(Get(shift_x), 1, 0, 1)
    /\ At3(Get(shift_out), 0, 0, 1) = At3(Get(shift_x), 0, 1, 1)


\* ------------------------------------------------------ claims: constructor
\* C10: with head_dim not given the constructor raises iff embed_dim is not
\* divisible by num_heads, and then the caller holds no instance; otherwise
\* head_dim is embed_dim / num_heads.  With head_dim given it never raises,
\* whatever embed_dim and num_heads, and the instance has that head_dim.
C10_Divisibility ==
    ctor # None =>
        /\ IsNone(ctor.head_dim) =>
              /\ ctor.raised # "" <=> ctor.embed_dim % ctor.num_heads # 0
              /\ ctor.raised = "" =>
                    Get(inst).head_dim * ctor.num_heads = ctor.embed_dim
        /\ ctor.raised # "" => inst = None
        /\ ~IsNone(ctor.head_dim) =>
              /\ ctor.raised = ""
              /\ inst # None
              /\ Get(inst).head_dim = Get(ctor.head_dim)
              /\ Get(inst).embed_dim = ctor.embed_dim
              /\ Get(inst).num_heads = ctor.num_heads

\* embed_dim = 10 and num_heads = 3 without head_dim: the constructor raised
C10_Witness ==
    /\ ctor # None
    /\ ctor.embed_dim = 10 /\ ctor.num_heads = 3 /\ IsNone(ctor.head_dim)
    /\ ctor.raised = "AssertionError" /\ inst = None

\* embed_dim = 10 and num_heads = 3 with head_dim = 2: an instance
C10_WitnessGiven ==
    /\ ctor # None
    /\ ctor.embed_dim = 10 /\ ctor.num_heads = 3 /\ ctor.head_dim = Some(2)
    /\ ctor.raised = "" /\ inst # None

\* ---------------------------------------- claims: RelPosMultiHeadAttention
CallArgs == Get(call).args
CallOut == Get(call).out
CallShape ==
    <<Len(CallArgs.query), Len(CallArgs.key), Len(CallArgs.query[1]),
      Get(inst).num_heads>>

\* attn_mask of the documented shape disallows key j for query i in batch b
Disallowed(attn_mask, ix) ==
    IF Len(attn_mask.shape) = 2
    THEN attn_mask.data[ix[1] * attn_mask.shape[2] + ix[2] + 1]
    ELSE attn_mask.data[(ix[3] * attn_mask.shape[2] + ix[1]) * attn_mask.shape[3]
                          + ix[2] + 1]

HasTrue(mask) == \E p \in 1..Len(mask.data) : mask.data[p]

\* C7: when forward returns under an attn_mask with a True entry, the score at (i, j, b, n) is the
\* fill value before the softmax exactly when attn_mask[i, j] (2-D) or
\* attn_mask[b, i, j] (3-D) is True, and the scaled score otherwise.
C7_Original ==
    (/\ call # None
     /\ ~IsNone(CallArgs.attn_mask)
     /\ HasTrue(Get(CallArgs.attn_mask))
     /\ CallOut.raised = "")
    => /\ Get(CallOut.masked).shape = CallShape
       /\ \A p \in 1..Size4(CallShape) :
             Get(CallOut.masked).data[p] =
                 IF Disallowed(Get(CallArgs.attn_mask), Idx4(CallShape, p))
                 THEN Get(inst).attn_fill_value
                 ELSE Get(CallOut.attn_score).data[p]

\* C8: when forward is given an attn_mask and returns, the returned
\* probability is 0 at every position the mask disallows and the softmax's
\* probability at every position it allows.
C8_Original ==
    (/\ call # None
     /\ ~IsNone(CallArgs.attn_mask)
     /\ CallOut.raised = "")
    => /\ Get(CallOut.attn_prob).shape = CallShape
       /\ \A p \in 1..Size4(CallShape) :
             IF Disallowed(Get(CallArgs.attn_mask), Idx4(CallShape, p))
             THEN Get(CallOut.attn_prob).data[p].num = 0
             ELSE Get(CallOut.attn_prob).data[p] = Get(CallOut.softmaxed).data[p]

KeyPadded(ix) ==
    Get(CallArgs.key_padding_mask).data[ix[3] * CallShape[2] + ix[2] + 1]

\* the keys of the row of position p
RowOf(p) ==
    LET ix == Idx4(CallShape, p)
    IN  {r \in 1..Size4(CallShape) :
            LET iy == Idx4(CallShape, r)
            IN  iy[1] = ix[1] /\ iy[3] = ix[3] /\ iy[4] = ix[4]}

\* C9: under a key_padding_mask, where the scores reach the padding step in
\* their shape (qlen, klen, bsz, num_heads), the score at (i, j, b, n) is the
\* fill value before the softmax if key_padding_mask[b, j] is True and is
\* left as it was if it is False; in a row that keeps a key which is not
\* filled the padded keys get the probability 0 and the probabilities sum
\* to 1; without an attn_mask these are the probabilities returned.
C9_KeyPadding ==
    (/\ call # None
     /\ ~IsNone(CallArgs.key_padding_mask)
     /\ ~IsNone(CallOut.masked)
     /\ Get(CallOut.masked).shape = CallShape)
    => /\ CallOut.raised # "AssertionError"
       /\ ~IsNone(CallOut.padded) /\ ~IsNone(CallOut.softmaxed)
       /\ Get(CallOut.padded).shape = CallShape
       /\ Get(CallOut.softmaxed).shape = CallShape
       /\ \A p \in 1..Size4(CallShape) :
             LET padded == Get(CallOut.padded).data
                 prob == Get(CallOut.softmaxed).data
                 fill == Get(inst).attn_fill_value
             IN  /\ padded[p] = IF KeyPadded(Idx4(CallShape, p)) THEN fill
                                ELSE Get(CallOut.masked).data[p]
                 /\ (\E r \in RowOf(p) : padded[r] # fill) =>
                       /\ KeyPadded(Idx4(CallShape, p)) => prob[p].num = 0
                       /\ prob[p].den > 0
                       /\ prob[p].den = SumSeq(Tup([j \in 1..CallShape[2] |->
                             prob[CHOOSE r \in RowOf(p) :
                                     Idx4(CallShape, r)[2] = j - 1].num]))
       /\ IsNone(CallArgs.attn_mask) =>
             CallOut.raised = "" /\ CallOut.attn_prob = CallOut.softmaxed

\* a call without attn_mask whose key_padding_mask pads one key of a row and
\* keeps another: the padded key has probability 0, the kept one has not
C9_Witness ==
    /\ call # None
    /\ ~IsNone(CallArgs.key_padding_mask) /\ IsNone(CallArgs.attn_mask)
    /\ CallOut.raised = ""
    /\ \E p \in 1..Size4(CallShape) : \E r \in RowOf(p) :
          /\ KeyPadded(Idx4(CallShape, p)) /\ ~KeyPadded(Idx4(CallShape, r))
          /\ Get(CallOut.attn_prob).data[p].num = 0
          /\ Get(CallOut.attn_prob).data[r].num > 0
          /\ Get(CallOut.padded).data[p] = Get(inst).attn_fill_value
          /\ Get(CallOut.attn_score).data[p] # Get(inst).attn_fill_value


\* ------------------------------------------- claims: callers of one instance
\* the instance as its constructor left it
AsConstructed ==
    RelPosMultiHeadAttention_init(ctor.embed_dim, ctor.num_heads, ctor.head_dim,
                                  ctor.shared, ctor.dtype).inst

Padded(x, m, u) ==
    IF m % (x.shape[2] + 1) = 0 THEN 0
    ELSE At3(x, m \div (x.shape[2] + 1), (m % (x.shape[2] + 1)) - 1, u)

Places(x) ==
    (0..(x.shape[1] - 1)) \X (0..(x.shape[2] - 1)) \X (0..(x.shape[3] - 1))

\* C12: _rel_shift returns a tensor of the shape of x with
\* out[i, j] = P[i * klen + j + qlen], P being x with a zero column before its
\* keys, flattened over the first two axes, the trailing axes untouched.  For
\* qlen = klen: out[i, j] = x[i, klen - 1 - (i - j)] for j <= i,
\* out[i, i + 1] = 0, and out[i, j] = x[i + 1, j - i - 2] for j > i + 1.  A zero
\* input gives a zero output, and an input with a single 1 an output with at
\* most one 1, at the place this mapping gives.
C12_RelShiftExact ==
    shift_out # None =>
        LET x == Get(shift_x)
            out == Get(shift_out)
            qlen == x.shape[1]
            klen == x.shape[2]
            ones(t) == {pl \in Places(t) : At3(t, pl[1], pl[2], pl[3]) = 1}
        IN  /\ out.shape = x.shape
            /\ Len(out.data) = Len(x.data)
            /\ \A pl \in Places(x) :
                  At3(out, pl[1], pl[2], pl[3])
                      = Padded(x, pl[1] * klen + pl[2] + qlen, pl[3])
            /\ qlen = klen =>
                  \A pl \in Places(x) :
                      LET i == pl[1]
                          j == pl[2]
                      IN  At3(out, i, j, pl[3]) =
                              IF j <= i THEN At3(x, i, klen - 1 - (i - j), pl[3])
                              ELSE IF j = i + 1 THEN 0
                              ELSE At3(x, i + 1, j - i - 2, pl[3])
            /\ (\A p \in 1..Len(x.data) : x.data[p] = 0) =>
                  \A p \in 1..Len(out.data) : out.data[p] = 0
            /\ (\A p \in 1..Len(x.data) : x.data[p] \in {0, 1}) /\ Cardinality(ones(x)) = 1 =>
                  /\ Cardinality(ones(out)) <= 1
                  /\ \A pl \in ones(out) :
                        LET m == pl[1] * klen + pl[2] + qlen
                        IN  /\ m % (klen + 1) # 0
                            /\ <<m \div (klen + 1), (m % (klen + 1)) - 1, pl[3]>> \in ones(x)

\* the shift of a 3 x 3 tensor whose single 1 is at x[1, 0]: the 1 is at
\* out[0, 2], wrapped in from the next query row
C12_Witness ==
    /\ shift_out # None
    /\ Get(shift_x).shape = <<3, 3, 1>>
    /\ Get(shift_x).data = <<0, 0, 0, 1, 0, 0, 0, 0, 0>>
    /\ At3(Get(shift_out), 0, 2, 0) = 1
    /\ Get(shift_out).data = <<0, 0, 1, 0, 0, 0, 0, 0, 0>>

=============================================================================
